---- MODULE Spec2Model ----
(***************************************************************************)
(* A model of cmd.hpp: the shell-style tokenizer, the from_string and      *)
(* to_string conversions, the type-erased invoker erased_func and the      *)
(* command registry.                                                       *)
(*                                                                         *)
(* A std::string / std::string_view is a sequence of one-character         *)
(* strings.  A std::optional<X> is a record [has, val].  A value of a      *)
(* built-in integral type of w bits is its object representation: a        *)
(* little-endian sequence of w/8 bytes, two's complement when signed.      *)
(***************************************************************************)
EXTENDS Integers, Sequences, FiniteSets

VARIABLES
    table,      \* registry::table, a map from names to erased_func
    latest,     \* history: for each name, the callable register_func was
                \* last given under it
    rebound,    \* history: the names register_func was given again, with
                \* another callable than the one they were bound to
    pc,         \* the caller: "idle", or "returned" holding the result of op
    op,         \* the operation the caller made last, with its arguments
    ret,        \* what that operation returned
    invoked,    \* the callables that operation invoked, with their arguments
    nconv       \* the number of from_string conversions that operation made

vars == <<table, latest, rebound, pc, op, ret, invoked, nconv>>

----------------------------------------------------------------------------
(* Characters and strings *)

SP == " "
SQ == "'"
DQ == "\""
NUL == "NUL"

\* std::string_view::npos
npos == 0 - 1

\* all strings over chars of length at most n
Strings(chars, n) == UNION {[1..k -> chars] : k \in 0..n}

\* std::string_view::find_first_of(cs): the 0-based index of the first
\* character of line that is in cs, or npos
find_first_of(line, cs) ==
    IF \E i \in 1..Len(line) : line[i] \in cs
    THEN (CHOOSE i \in 1..Len(line) :
              /\ line[i] \in cs
              /\ \A j \in 1..(i - 1) : line[j] \notin cs) - 1
    ELSE npos

\* a find that stops at either quote character
find_any_quote(line, c) == find_first_of(line, {SQ, DQ})

\* std::string_view::find(c)
find(line, c) == find_first_of(line, {c})

\* std::string_view::substr(pos, n), pos and n 0-based as in C++
substr(line, pos, n) == SubSeq(line, pos + 1, pos + n)

\* std::string_view::substr(pos)
substr_from(line, pos) == SubSeq(line, pos + 1, Len(line))

----------------------------------------------------------------------------
(* tokenize *)

\* std::pair{toks, quote}
pair(toks, quote) == [toks |-> toks, quote |-> quote]

\* a loop that, at a space, pushes the current token even when it is empty
RECURSIVE tokenize_loop_flush(_, _, _, _, _)
tokenize_loop_flush(line, sq, dq, toks, cur) ==
    IF ~(Len(line) > 0)
    THEN pair(IF Len(cur) > 0 THEN Append(toks, cur) ELSE toks, NUL)
    ELSE IF sq
    THEN LET i == find(line, SQ) IN
         IF i = npos
         THEN pair(Append(toks, cur \o line), SQ)
         ELSE tokenize_loop_flush(substr_from(line, i + 1), FALSE, dq, toks,
                                  cur \o substr(line, 0, i))
    ELSE IF dq
    THEN LET i == find(line, DQ) IN
         IF i = npos
         THEN pair(Append(toks, cur \o line), DQ)
         ELSE tokenize_loop_flush(substr_from(line, i + 1), sq, FALSE, toks,
                                  cur \o substr(line, 0, i))
    ELSE LET i == find_first_of(line, {SP, DQ, SQ}) IN
         IF i = npos
         THEN pair(Append(toks, cur \o line), NUL)
         ELSE LET cur1 == cur \o substr(line, 0, i)
                  c    == line[i + 1]
                  rest == substr_from(line, i + 1)
              IN  IF c = SP
                  THEN tokenize_loop_flush(rest, sq, dq, Append(toks, cur1), <<>>)
                  ELSE IF c = SQ
                  THEN tokenize_loop_flush(rest, TRUE, dq, toks, cur1)
                  ELSE tokenize_loop_flush(rest, sq, TRUE, toks, cur1)

\* the while loop of tokenize, with its locals as parameters, and the
\* statements after the loop
RECURSIVE tokenize_loop(_, _, _, _, _)
tokenize_loop(line, sq, dq, toks, cur) ==
    IF ~(Len(line) > 0)
    THEN pair(IF Len(cur) > 0 THEN Append(toks, cur) ELSE toks, NUL)
    ELSE IF sq
    THEN LET i == find(line, SQ) IN
         IF i = npos
         THEN pair(Append(toks, cur \o line), SQ)
         ELSE tokenize_loop(substr_from(line, i + 1), FALSE, dq, toks,
                            cur \o substr(line, 0, i))
    ELSE IF dq
    THEN LET i == find(line, DQ) IN
         IF i = npos
         THEN pair(Append(toks, cur \o line), DQ)
         ELSE tokenize_loop(substr_from(line, i + 1), sq, FALSE, toks,
                            cur \o substr(line, 0, i))
    ELSE LET i == find_first_of(line, {SP, DQ, SQ}) IN
         IF i = npos
         THEN pair(Append(toks, cur \o line), NUL)
         ELSE LET cur1 == cur \o substr(line, 0, i)
                  c    == line[i + 1]
                  rest == substr_from(line, i + 1)
              IN  IF c = SP
                  THEN IF Len(cur1) > 0
                       THEN tokenize_loop(rest, sq, dq, Append(toks, cur1), <<>>)
                       ELSE tokenize_loop(rest, sq, dq, toks, cur1)
                  ELSE IF c = SQ
                  THEN tokenize_loop(rest, TRUE, dq, toks, cur1)
                  ELSE tokenize_loop(rest, sq, TRUE, toks, cur1)

tokenize(line) == tokenize_loop(line, FALSE, FALSE, <<>>, <<>>)

----------------------------------------------------------------------------
(* Types and values *)

\* the types of parameters and return values the model uses
Integral(signed, size) == [kind |-> "integral", signed |-> signed, size |-> size]
T_string == [kind |-> "string"]
T_void   == [kind |-> "void"]
T_int    == Integral(TRUE, 4)

\* the built-in integral types std::from_chars and std::to_chars take, by
\* signedness and sizeof: (un)signed char, short, int, long / long long
IntegralTypes == {Integral(sg, sz) : sg \in BOOLEAN, sz \in {1, 2, 4, 8}}

\* std::optional
nullopt == [has |-> FALSE, val |-> <<>>]
Some(v) == [has |-> TRUE, val |-> v]

\* T x = 0, in size bytes
Zero(size) == [i \in 1..size |-> 0]

IsZero(x) == \A i \in 1..Len(x) : x[i] = 0

\* x * m + c on little-endian bytes, in Len(x) bytes: the low bytes and the
\* carry out of them
RECURSIVE mul_add(_, _, _)
mul_add(x, m, c) ==
    IF x = <<>> THEN [val |-> <<>>, carry |-> c]
    ELSE LET t == Head(x) * m + c
             r == mul_add(Tail(x), m, t \div 256)
         IN  [val |-> <<t % 256>> \o r.val, carry |-> r.carry]

\* x divided by d on little-endian bytes, r the remainder carried in from
\* the bytes above: quotient and remainder
RECURSIVE div_mod(_, _, _)
div_mod(x, d, r) ==
    IF x = <<>> THEN [quot |-> <<>>, rem |-> r]
    ELSE LET n  == Len(x)
             t  == r * 256 + x[n]
             lo == div_mod(SubSeq(x, 1, n - 1), d, t % d)
         IN  [quot |-> Append(lo.quot, t \div d), rem |-> lo.rem]

\* 0 - x in unsigned arithmetic of Len(x) bytes
negate(x) == mul_add([i \in 1..Len(x) |-> 255 - x[i]], 1, 1).val

\* the sign bit of x
sign_bit(x) == x[Len(x)] >= 128

\* x <= 2^(w-1), the magnitude of the least value of a signed type
fits_negative(x) ==
    \/ ~sign_bit(x)
    \/ /\ x[Len(x)] = 128
       /\ \A i \in 1..(Len(x) - 1) : x[i] = 0

DigitChars == <<"0", "1", "2", "3", "4", "5", "6", "7", "8", "9">>
IsDigit(c) == \E d \in 1..Len(DigitChars) : DigitChars[d] = c
DigitVal(c) == (CHOOSE d \in 1..Len(DigitChars) : DigitChars[d] = c) - 1

----------------------------------------------------------------------------
(* std::from_chars and from_string *)

\* the number of leading decimal digits of tok from position i (1-based) on
RECURSIVE digit_run(_, _)
digit_run(tok, i) ==
    IF i <= Len(tok) /\ IsDigit(tok[i]) THEN 1 + digit_run(tok, i + 1) ELSE 0

\* the digits tok[i..j] accumulated onto acc: the value in Len(acc.val)
\* bytes and whether it overflowed them
RECURSIVE accumulate(_, _, _, _)
accumulate(tok, i, j, acc) ==
    IF i > j THEN acc
    ELSE LET r == mul_add(acc.val, 10, DigitVal(tok[i]))
         IN  accumulate(tok, i + 1, j,
                        [val |-> r.val, over |-> acc.over \/ r.carry > 0])

\* a from_chars that rejects the magnitude 2^(w-1) of the least value
in_range_no_min(T, neg, mag) ==
    /\ ~mag.over
    /\ T.signed => ~sign_bit(mag.val)

\* the parsed magnitude is representable in T
in_range(T, neg, mag) ==
    /\ ~mag.over
    /\ T.signed => IF neg THEN fits_negative(mag.val) ELSE ~sign_bit(mag.val)

\* std::from_chars(first, last, x) in base 10 for an integral T, x being
\* x0 before the call: the pattern is an optional minus sign (signed T
\* only) and a nonempty run of digits, no leading space, no plus sign.  ptr
\* is the offset of the first character that is not matched.  With no match
\* ec is invalid_argument; with a match whose value T cannot hold ec is
\* result_out_of_range; in both x is left as it was.
from_chars(T, tok, x0) ==
    LET neg   == T.signed /\ Len(tok) > 0 /\ tok[1] = "-"
        first == IF neg THEN 2 ELSE 1
        n     == digit_run(tok, first)
        mag   == accumulate(tok, first, first + n - 1,
                            [val |-> Zero(T.size), over |-> FALSE])
    IN  IF n = 0
        THEN [ptr |-> 0, ec |-> "invalid_argument", x |-> x0]
        ELSE IF ~in_range(T, neg, mag)
        THEN [ptr |-> first - 1 + n, ec |-> "result_out_of_range", x |-> x0]
        ELSE [ptr |-> first - 1 + n, ec |-> "ok",
              x |-> IF neg THEN negate(mag.val) ELSE mag.val]

\* from_string<T>{}(tok): the numeric specialization, and the pass-through
\* of std::string and std::string_view
from_string(T, tok) ==
    IF T.kind = "string" THEN Some(tok)
    ELSE LET res == from_chars(T, tok, Zero(T.size))
         IN  IF res.ec # "ok" THEN nullopt ELSE Some(res.x)

----------------------------------------------------------------------------
(* std::to_chars and to_string *)

\* sizeof(buf) in to_string
BufSize == 32

\* the decimal digits of the unsigned x, most significant first, without
\* leading zeros; none for 0
RECURSIVE digits_of(_)
digits_of(x) ==
    IF IsZero(x) THEN <<>>
    ELSE LET r == div_mod(x, 10, 0)
         IN  Append(digits_of(r.quot), DigitChars[r.rem + 1])

\* the decimal text of the value x of the integral type T
decimal(T, x) ==
    LET neg == T.signed /\ sign_bit(x)
        ds  == digits_of(IF neg THEN negate(x) ELSE x)
    IN  (IF neg THEN <<"-">> ELSE <<>>) \o (IF ds = <<>> THEN <<"0">> ELSE ds)

\* std::to_chars(buf, buf + Len(buf), x) for an integral T.  buf is the
\* buffer as it is before the call.  If the text does not fit, ec is
\* value_too_large, ptr is the end of the buffer and the buffer's contents
\* are unspecified: they are left as they were.
to_chars(T, buf, x) ==
    LET text == decimal(T, x)
    IN  IF Len(text) > Len(buf)
        THEN [ptr |-> Len(buf), ec |-> "value_too_large", buf |-> buf]
        ELSE [ptr |-> Len(text), ec |-> "ok",
              buf |-> [i \in 1..Len(buf) |->
                          IF i <= Len(text) THEN text[i] ELSE buf[i]]]

\* to_string<T>{}(x): the numeric specialization, with junk what the
\* uninitialized buf holds, and the pass-through of std::string
to_string(T, x, junk) ==
    IF T.kind = "string" THEN x
    ELSE LET res == to_chars(T, junk, x)
         IN  substr(res.buf, 0, res.ptr)

\* what char buf[32] may hold before it is written
JunkBufs == {[i \in 1..BufSize |-> c] : c \in {"?", "0"}}

----------------------------------------------------------------------------
(* erased_func *)

\* The functions the caller registers, by signature R(Args...):
\*      void v0();   int ii(int x) { return x; }
\*      void vsi(std::string, int);
Callables == {
    [fn |-> "v0",  R |-> T_void, Args |-> <<>>],
    [fn |-> "ii",  R |-> T_int,  Args |-> <<T_int>>],
    [fn |-> "vsi", R |-> T_void, Args |-> <<T_string, T_int>>] }

\* A function that registers in the registry it is called from:
\*      int reg(int x) { r.register_func("f", &v0); return x; }
V0 == [fn |-> "v0", R |-> T_void, Args |-> <<>>]
Reg == [fn |-> "reg", R |-> T_int, Args |-> <<T_int>>]
ReentCallables == Callables \cup {Reg}

\* what fn(args...) returns
Body(fn, args) == IF fn \in {"ii", "reg"} THEN args[1] ELSE <<>>

\* the register_func calls fn makes while it runs, in order
Registers(fn) ==
    IF fn = "reg" THEN << [name |-> <<"f">>, c |-> V0] >> ELSE <<>>

\* the register_func calls made by the callables of the log calls
Registrations(calls) ==
    IF calls = <<>> THEN <<>> ELSE Registers(calls[1].fn)

\* erased_func(R (*fn)(Args...)): the dispatch routine of the signature and
\* the function pointer
erased_func(c) == [dispatch |-> [R |-> c.R, Args |-> c.Args], fn |-> c.fn]

\* an arity check that lets extra tokens through
too_few(toks, Args) == Len(toks) < Len(Args)

\* toks.size() != sizeof...(Args)
arity_mismatch(toks, Args) == Len(toks) # Len(Args)

\* a check of the first conversion only
first_empty(optargs) == Len(optargs) > 0 /\ ~optargs[1].has

\* (!get<is>(optargs) || ...)
any_empty(optargs) == \E i \in 1..Len(optargs) : ~optargs[i].has

\* dispatch_func<Callable, R, Args...>(uf, toks): what it returns, the
\* calls of uf it makes and the number of from_string conversions it makes
dispatch_func(dispatch, uf, toks, junk) ==
    IF arity_mismatch(toks, dispatch.Args)
    THEN [ret |-> nullopt, invoked |-> <<>>, nconv |-> 0]
    ELSE LET optargs == [i \in 1..Len(dispatch.Args) |->
                            from_string(dispatch.Args[i], toks[i])]
         IN  IF any_empty(optargs)
             THEN [ret |-> nullopt, invoked |-> <<>>, nconv |-> Len(optargs)]
             ELSE LET args == [i \in 1..Len(optargs) |-> optargs[i].val]
                      call == [fn |-> uf, args |-> args]
                  IN  IF dispatch.R.kind # "void"
                      THEN [ret |-> Some(to_string(dispatch.R, Body(uf, args), junk)),
                            invoked |-> <<call>>, nconv |-> Len(optargs)]
                      ELSE [ret |-> Some(<<>>),
                            invoked |-> <<call>>, nconv |-> Len(optargs)]

\* erased_func::call(toks)
erased_call(ef, toks, junk) == dispatch_func(ef.dispatch, ef.fn, toks, junk)

----------------------------------------------------------------------------
(* registry *)

\* a lookup by operator[], which inserts a default erased_func
table_subscript(t, name) ==
    [found |-> name \in DOMAIN t,
     table |-> [n \in DOMAIN t \cup {name} |->
                   IF n \in DOMAIN t THEN t[n] ELSE [dispatch |-> NUL, fn |-> NUL]]]

\* table.find(name): whether it != table.end(), and the table after it
table_find(t, name) == [found |-> name \in DOMAIN t, table |-> t]

\* an insert that keeps the binding a name already has
table_insert(t, name, ef) ==
    [n \in DOMAIN t \cup {name} |-> IF n \in DOMAIN t THEN t[n] ELSE ef]

\* table[name] = fn
table_assign(t, name, ef) ==
    [n \in DOMAIN t \cup {name} |-> IF n = name THEN ef ELSE t[n]]

\* the last of the register_func calls regs that names n
last_of(regs, n) ==
    CHOOSE i \in 1..Len(regs) :
        /\ regs[i].name = n
        /\ \A j \in (i + 1)..Len(regs) : regs[j].name # n

\* the table after the register_func calls regs, made in order: each
\* table[name] = fn overwrites, so the last call that names n decides
register_all(t, regs) ==
    [n \in DOMAIN t \cup {regs[i].name : i \in 1..Len(regs)} |->
        IF \E i \in 1..Len(regs) : regs[i].name = n
        THEN table_assign(t, n, erased_func(regs[last_of(regs, n)].c))[n]
        ELSE t[n]]

\* what call returns once ef.call(toks) has returned r, and the table then:
\* the callable invoked has made its register_func calls on the table t
after_call(t, r) ==
    [ret |-> r.ret, invoked |-> r.invoked, nconv |-> r.nconv,
     table |-> register_all(t, Registrations(r.invoked))]

\* a call through the table's slot instead of a copy of it: the result is
\* produced by the invoker the slot holds once the callable has run
call_name_no_copy(t, name, toks, junk) ==
    LET it == table_find(t, name)
    IN  IF ~it.found
        THEN [ret |-> nullopt, invoked |-> <<>>, nconv |-> 0, table |-> it.table]
        ELSE LET r0    == erased_call(it.table[name], toks, junk)
                 after == register_all(it.table, Registrations(r0.invoked))
                 r     == erased_call(after[name], toks, junk)
             IN  [ret |-> r.ret, invoked |-> r0.invoked, nconv |-> r0.nconv,
                  table |-> after]

\* registry::call(name, toks): the result and the table after it.  ef is a
\* copy of the invoker found; the callable it invokes may call
\* register_func on this registry while it runs.
call_name(t, name, toks, junk) ==
    LET it == table_find(t, name)
    IN  IF ~it.found
        THEN [ret |-> nullopt, invoked |-> <<>>, nconv |-> 0, table |-> it.table]
        ELSE LET ef == it.table[name]
             IN  after_call(it.table, erased_call(ef, toks, junk))

\* registry::call(line)
call_line(t, line, junk) ==
    LET tq == tokenize(line)
    IN  IF tq.quote # NUL \/ tq.toks = <<>>
        THEN [ret |-> nullopt, invoked |-> <<>>, nconv |-> 0, table |-> t]
        ELSE call_name(t, tq.toks[1], Tail(tq.toks), junk)

----------------------------------------------------------------------------
(* The caller: the registry starts empty, the caller is idle. *)

NoOp == [kind |-> "none"]

\* a default-constructed std::unordered_map
EmptyTable == [n \in {} |-> NoOp]

Init ==
    /\ table = EmptyTable
    /\ latest = EmptyTable
    /\ rebound = {}
    /\ pc = "idle"
    /\ op = NoOp
    /\ ret = NoOp
    /\ invoked = <<>>
    /\ nconv = 0

\* The caller takes the result of the operation and is ready for the next.
Return ==
    /\ pc = "returned"
    /\ pc' = "idle"
    /\ op' = NoOp
    /\ ret' = NoOp
    /\ invoked' = <<>>
    /\ nconv' = 0
    /\ UNCHANGED <<table, latest, rebound>>

\* The caller tokenizes a line.
Tokenize(line) ==
    /\ pc = "idle"
    /\ pc' = "returned"
    /\ op' = [kind |-> "tokenize", line |-> line]
    /\ ret' = tokenize(line)
    /\ UNCHANGED <<table, latest, rebound, invoked, nconv>>

----------------------------------------------------------------------------
(* The registry: register_func under the names RegNames, call(line) on     *)
(* every line over LineChars up to MaxLineLen, call(name, toks) on every   *)
(* name of CallNames and up to MaxToks tokens of ArgTokens, and tokenize   *)
(* on the lines call(line) is given.                                       *)

MaxLineLen == 3
MaxToks == 3
LineChars == {"f", SP, SQ, DQ, "1"}
RegNames == {<<"f">>, <<"F">>}
CallNames == RegNames \cup {<<"g">>}
ArgTokens == {<<"1">>, <<"-", "1">>, <<"1", "x">>, <<"x">>}

\* the histories after the register_func calls regs, made in order
note_latest(l, regs) ==
    [n \in DOMAIN l \cup {regs[i].name : i \in 1..Len(regs)} |->
        IF \E i \in 1..Len(regs) : regs[i].name = n
        THEN regs[last_of(regs, n)].c
        ELSE l[n]]

note_rebound(l, rb, regs) ==
    rb \cup {regs[i].name : i \in {k \in 1..Len(regs) :
                 LET before == note_latest(l, SubSeq(regs, 1, k - 1))
                 IN  /\ regs[k].name \in DOMAIN before
                     /\ before[regs[k].name] # regs[k].c}}

RegisterFunc(name, c) ==
    /\ pc = "idle"
    /\ pc' = "returned"
    /\ op' = [kind |-> "register_func", name |-> name, fn |-> c.fn]
    /\ table' = table_assign(table, name, erased_func(c))
    /\ latest' = [n \in DOMAIN latest \cup {name} |->
                     IF n = name THEN c ELSE latest[n]]
    /\ rebound' = IF name \in DOMAIN latest /\ latest[name] # c
                  THEN rebound \cup {name} ELSE rebound
    /\ ret' = NoOp
    /\ UNCHANGED <<invoked, nconv>>

\* the caller holds r, the result of a call and the table after it
Outcome(r) ==
    /\ ret' = r.ret
    /\ invoked' = r.invoked
    /\ nconv' = r.nconv
    /\ table' = r.table
    /\ latest' = note_latest(latest, Registrations(r.invoked))
    /\ rebound' = note_rebound(latest, rebound, Registrations(r.invoked))

CallLine(line, junk) ==
    /\ pc = "idle"
    /\ pc' = "returned"
    /\ op' = [kind |-> "call_line", line |-> line]
    /\ Outcome(call_line(table, line, junk))

CallName(name, toks, junk) ==
    /\ pc = "idle"
    /\ pc' = "returned"
    /\ op' = [kind |-> "call_name", name |-> name, toks |-> toks]
    /\ Outcome(call_name(table, name, toks, junk))

Next ==
    \/ \E name \in RegNames, c \in Callables : RegisterFunc(name, c)
    \/ \E line \in Strings(LineChars, MaxLineLen), junk \in JunkBufs :
           CallLine(line, junk)
    \/ \E name \in CallNames, toks \in Strings(ArgTokens, MaxToks),
          junk \in JunkBufs : CallName(name, toks, junk)
    \/ \E line \in Strings(LineChars, MaxLineLen) : Tokenize(line)
    \/ Return

Spec == Init /\ [][Next]_vars

----------------------------------------------------------------------------
(* The registry with a callable that registers while it runs: as Spec,     *)
(* with reg among the functions the caller registers.                      *)

NextReent ==
    \/ \E name \in RegNames, c \in ReentCallables : RegisterFunc(name, c)
    \/ \E line \in Strings(LineChars, MaxLineLen), junk \in JunkBufs :
           CallLine(line, junk)
    \/ \E name \in CallNames, toks \in Strings(ArgTokens, MaxToks),
          junk \in JunkBufs : CallName(name, toks, junk)
    \/ Return

SpecReent == Init /\ [][NextReent]_vars

----------------------------------------------------------------------------
(* The tokenizer on its own: every line over TokChars up to MaxTokLen. *)

MaxTokLen == 6
TokChars == {"a", SP, SQ, DQ}

NextTok ==
    \/ \E line \in Strings(TokChars, MaxTokLen) : Tokenize(line)
    \/ Return

SpecTok == Init /\ [][NextTok]_vars

----------------------------------------------------------------------------
(* The numeric conversions on their own: from_string on every token over   *)
(* NumChars up to MaxNumLen, to_string on the sampled values of every      *)
(* integral type, and from_string on what to_string returned.              *)

MaxNumLen == 4
NumChars == {"-", "1", "2", "9", "x"}

\* bytes at and next to the edges of the digit and sign boundaries
EdgeBytes == {0, 1, 127, 128, 255}

\* the values of T the model converts: every value of a one-byte type;
\* for the wider types the low and the high byte range over EdgeBytes and
\* each byte between is 0 or 255, which includes 0, 1, -1, the least and
\* the greatest value of T
Values(T) ==
    IF T.size = 1 THEN [1..1 -> 0..255]
    ELSE {[m EXCEPT ![1] = lo, ![T.size] = hi] :
              m \in [1..T.size -> {0, 255}], lo \in EdgeBytes, hi \in EdgeBytes}

FromString(T, tok) ==
    /\ pc = "idle"
    /\ pc' = "returned"
    /\ op' = [kind |-> "from_string", T |-> T, tok |-> tok]
    /\ ret' = from_string(T, tok)
    /\ UNCHANGED <<table, latest, rebound, invoked, nconv>>

ToString(T, x, junk) ==
    /\ pc = "idle"
    /\ pc' = "returned"
    /\ op' = [kind |-> "to_string", T |-> T, x |-> x]
    /\ ret' = to_string(T, x, junk)
    /\ UNCHANGED <<table, latest, rebound, invoked, nconv>>

\* the caller hands the text to_string returned to from_string of the same T
FromStringBack ==
    /\ pc = "returned"
    /\ op.kind = "to_string"
    /\ op' = [kind |-> "round_trip", T |-> op.T, x |-> op.x, text |-> ret]
    /\ ret' = from_string(op.T, ret)
    /\ UNCHANGED <<table, latest, rebound, pc, invoked, nconv>>

NextConv ==
    \/ \E T \in IntegralTypes, tok \in Strings(NumChars, MaxNumLen) :
           FromString(T, tok)
    \/ \E T \in IntegralTypes, junk \in JunkBufs :
           \E x \in Values(T) : ToString(T, x, junk)
    \/ FromStringBack
    \/ Return

SpecConv == Init /\ [][NextConv]_vars

----------------------------------------------------------------------------
(* The quoting grammar, character by character (spec section 6). *)

\* the quote that is open after the first k characters of line, NUL if none
RECURSIVE QuoteAfter(_, _)
QuoteAfter(line, k) ==
    IF k = 0 THEN NUL
    ELSE LET q == QuoteAfter(line, k - 1)
             c == line[k]
         IN  IF q = NUL THEN (IF c \in {SQ, DQ} THEN c ELSE NUL)
             ELSE IF c = q THEN NUL ELSE q

\* the line ends inside a quoted span
OpenQuote(line) == QuoteAfter(line, Len(line))

\* what the k-th character is: a separator, a quote that opens or closes a
\* span, or text of a token
CharClass(line, k) ==
    LET q == QuoteAfter(line, k - 1)
        c == line[k]
    IN  IF q = NUL
        THEN IF c = SP THEN "sep" ELSE IF c \in {SQ, DQ} THEN "quote" ELSE "text"
        ELSE IF c = q THEN "quote" ELSE "text"

\* the text characters among line[a..b], in order
RECURSIVE TextOf(_, _, _)
TextOf(line, a, b) ==
    IF a > b THEN <<>>
    ELSE (IF CharClass(line, a) = "text" THEN <<line[a]>> ELSE <<>>)
         \o TextOf(line, a + 1, b)

\* the position of the first separator at or after a, Len(line) + 1 if none
NextSep(line, a) ==
    CHOOSE b \in a..(Len(line) + 1) :
        /\ b = Len(line) + 1 \/ CharClass(line, b) = "sep"
        /\ \A k \in a..(b - 1) : CharClass(line, k) # "sep"

\* the reference tokenization of line from position a on: the line cut at
\* its separators, each piece reduced to its text, empty pieces dropped
RECURSIVE RefTokensFrom(_, _)
RefTokensFrom(line, a) ==
    IF a > Len(line) THEN <<>>
    ELSE LET b     == NextSep(line, a)
             piece == TextOf(line, a, b - 1)
         IN  (IF piece = <<>> THEN <<>> ELSE <<piece>>) \o RefTokensFrom(line, b + 1)

RefTokens(line) == RefTokensFrom(line, 1)

\* the text of the token under construction when the line ends: the text
\* after the last separator
LastPiece(line) ==
    LET seps == {k \in 1..Len(line) : CharClass(line, k) = "sep"}
        a    == IF seps = {} THEN 1
                ELSE (CHOOSE k \in seps : \A j \in seps : j <= k) + 1
    IN  TextOf(line, a, Len(line))

----------------------------------------------------------------------------
(* Claims about tokenize, checked under SpecTok *)

Tokenized == pc = "returned" /\ op.kind = "tokenize"

\* C2: if the line ends inside a quoted span, tokenize reports that quote
\* character, never NUL, and the token built so far is the last token.
\* Stated as the claim states it; the code breaks it on a line whose last
\* character opens the quote, such as a' .
C2_UnterminatedQuoteReported ==
    (Tokenized /\ OpenQuote(op.line) # NUL) =>
        /\ ret.quote = OpenQuote(op.line)
        /\ Len(ret.toks) > 0
        /\ ret.toks[Len(ret.toks)] = LastPiece(op.line)

\* C10: for every line whose quotes are all closed, tokenize returns the
\* reference tokenization of the grammar and the quote state NUL: cut at the
\* spaces outside quoted spans, the opening and closing quote characters
\* removed, the characters inside a span kept verbatim, adjacent segments
\* concatenated in input order (pieces left empty give no token).
C10_TokenizeMatchesGrammar ==
    (Tokenized /\ OpenQuote(op.line) = NUL) =>
        ret = pair(RefTokens(op.line), NUL)

\* C10 witness: a' "'a is one token, a "a : a quoted span holding a space
\* and the other quote character, glued to unquoted text on both sides.
C10_Witness ==
    /\ Tokenized
    /\ op.line = <<"a", SQ, SP, DQ, SQ, "a">>
    /\ ret = pair(<< <<"a", SP, DQ, "a">> >>, NUL)

----------------------------------------------------------------------------
(* Claims about the numeric conversions, checked under SpecConv *)

\* tok is a numeral of the grammar (an optional minus sign, then digits)
\* followed by at least one character that is no digit
NumeralThenMore(T, tok) ==
    \E k \in 1..(Len(tok) - 1) :
        /\ ~IsDigit(tok[k + 1])
        /\ \A i \in 2..k : IsDigit(tok[i])
        /\ IsDigit(tok[1]) \/ (T.signed /\ tok[1] = "-" /\ k >= 2)

\* C3: from_string<T> of a token that has a valid numeral prefix followed
\* by at least one extra character (42abc) is empty.  Stated as the claim
\* states it; the code accepts such a token, as it does not compare
\* res.ptr with the end of the token.
C3_WholeTokenConsumed ==
    (/\ pc = "returned"
     /\ op.kind = "from_string"
     /\ NumeralThenMore(op.T, op.tok)) => ~ret.has

\* C9: for every integral type T and value x of T, to_string<T>(x) fits
\* the 32-byte buffer, and from_string<T> of it is present and equals x.
C9_NumericRoundTrip ==
    (pc = "returned" /\ op.kind = "round_trip") =>
        /\ \A junk \in JunkBufs : to_chars(op.T, junk, op.x).ec = "ok"
        /\ ret = Some(op.x)

\* C9 witness: the least value of the 8-byte signed type, whose text
\* -9223372036854775808 is the longest there is, has made the round trip.
C9_Witness ==
    /\ pc = "returned"
    /\ op.kind = "round_trip"
    /\ op.T = Integral(TRUE, 8)
    /\ op.x = <<0, 0, 0, 0, 0, 0, 0, 128>>
    /\ op.text = <<"-", "9", "2", "2", "3", "3", "7", "2", "0", "3", "6",
                   "8", "5", "4", "7", "7", "5", "8", "0", "8">>
    /\ ret = Some(op.x)

----------------------------------------------------------------------------
(* Claims about the registry, checked under Spec *)

IsCall(o) == o.kind \in {"call_line", "call_name"}
Called == pc = "returned" /\ IsCall(op)

\* the name and the tokens the call o hands to the table lookup, if it
\* gets that far
Handed(o) ==
    IF o.kind = "call_name"
    THEN [ok |-> TRUE, name |-> o.name, toks |-> o.toks]
    ELSE LET tq == tokenize(o.line)
         IN  IF tq.quote = NUL /\ tq.toks # <<>>
             THEN [ok |-> TRUE, name |-> tq.toks[1], toks |-> Tail(tq.toks)]
             ELSE [ok |-> FALSE, name |-> <<>>, toks |-> <<>>]

\* the call reached the invoker of a registered callable
Dispatched == Called /\ Handed(op).ok /\ Handed(op).name \in DOMAIN latest

\* the i-th token handed over does not convert to the i-th parameter type
FailsAt(c, toks, i) == ~from_string(c.Args[i], toks[i]).has

\* C1: call(line) of a line that ends while a quote is open returns an
\* empty optional and invokes nothing.  Stated as the claim states it; the
\* code breaks it on a line whose last character opens the quote (f ' with
\* f registered without parameters), where tokenize reports no open quote.
C1_OpenQuoteFails ==
    (Called /\ op.kind = "call_line" /\ OpenQuote(op.line) # NUL) =>
        (ret = nullopt /\ invoked = <<>>)

\* C4: a call that hands n tokens to a callable with n parameters, one of
\* which (at any position) does not convert, returns an empty optional and
\* does not invoke the callable.
C4_AllOrNothing ==
    Dispatched =>
        LET c    == latest[Handed(op).name]
            toks == Handed(op).toks
        IN  (/\ Len(toks) = Len(c.Args)
             /\ \E i \in 1..Len(toks) : FailsAt(c, toks, i)) =>
                (ret = nullopt /\ invoked = <<>>)

\* C4 witness: vsi(std::string, int) called with x x: the first token
\* converts, the second does not, and vsi was not invoked.
C4_Witness ==
    /\ Called
    /\ op.kind = "call_name"
    /\ op.name \in DOMAIN latest
    /\ latest[op.name].fn = "vsi"
    /\ op.toks = << <<"x">>, <<"x">> >>
    /\ ~FailsAt(latest[op.name], op.toks, 1)
    /\ FailsAt(latest[op.name], op.toks, 2)
    /\ nconv = 2
    /\ ret = nullopt
    /\ invoked = <<>>

\* C5: a call that hands a callable with n parameters a number of tokens
\* other than n returns an empty optional, converts no token and does not
\* invoke the callable.
C5_ArityCheck ==
    Dispatched =>
        LET c    == latest[Handed(op).name]
            toks == Handed(op).toks
        IN  Len(toks) # Len(c.Args) =>
                (ret = nullopt /\ invoked = <<>> /\ nconv = 0)

\* C5 witness: the one-parameter ii called with the two tokens 1 1, each
\* of which converts, was not invoked.
C5_Witness ==
    /\ Called
    /\ op.kind = "call_name"
    /\ op.name \in DOMAIN latest
    /\ latest[op.name].fn = "ii"
    /\ op.toks = << <<"1">>, <<"1">> >>
    /\ ret = nullopt
    /\ invoked = <<>>
    /\ nconv = 0

\* C6: the table binds each name to the callable register_func was last
\* given under exactly that name, whatever was registered under it or under
\* other names before, and a call by name is dispatched to that callable:
\* its outcome is that of the invoker of that callable, and no other
\* callable is invoked.
C6_ReRegistrationReplaces ==
    /\ DOMAIN table = DOMAIN latest
    /\ \A n \in DOMAIN latest : table[n] = erased_func(latest[n])
    /\ Dispatched =>
           LET c    == latest[Handed(op).name]
               toks == Handed(op).toks
           IN  /\ \A i \in 1..Len(invoked) : invoked[i].fn = c.fn
               /\ \E junk \in JunkBufs :
                      LET r == erased_call(erased_func(c), toks, junk)
                      IN  ret = r.ret /\ invoked = r.invoked /\ nconv = r.nconv

\* C6 witness: f, once bound to another callable, was re-registered as ii
\* while F is bound to v0; the call f 1 invoked ii and returned 1.
C6_Witness ==
    /\ Called
    /\ op = [kind |-> "call_name", name |-> <<"f">>, toks |-> << <<"1">> >>]
    /\ <<"f">> \in rebound
    /\ DOMAIN latest = {<<"f">>, <<"F">>}
    /\ latest[<<"f">>].fn = "ii"
    /\ latest[<<"F">>].fn = "v0"
    /\ invoked = << [fn |-> "ii", args |-> << <<1, 0, 0, 0>> >>] >>
    /\ ret = Some(<<"1">>)

\* C7: a call of a name the table does not bind returns an empty optional,
\* invokes nothing and leaves the table as it was.
C7_UnknownNameNoEffect ==
    [][(/\ pc = "idle"
        /\ pc' = "returned"
        /\ IsCall(op')
        /\ Handed(op').ok
        /\ Handed(op').name \notin DOMAIN table) =>
           (ret' = nullopt /\ invoked' = <<>> /\ table' = table)]_vars

\* C7 witness: with only f bound, the line 1 1 was called: the name 1 is
\* not bound, the result is empty and the table still binds f alone.
C7_Witness ==
    /\ Called
    /\ op = [kind |-> "call_line", line |-> <<"1", SP, "1">>]
    /\ Handed(op).name = <<"1">>
    /\ DOMAIN table = {<<"f">>}
    /\ table[<<"f">>] = erased_func(latest[<<"f">>])
    /\ ret = nullopt
    /\ invoked = <<>>

\* tok is a numeral of the grammar of T and nothing else
WholeNumeral(T, tok) ==
    /\ Len(tok) > 0
    /\ \A i \in 2..Len(tok) : IsDigit(tok[i])
    /\ IsDigit(tok[1]) \/ (T.signed /\ tok[1] = "-" /\ Len(tok) >= 2)

\* the failures of spec section 7, for the call o
UnterminatedQuote(o) == o.kind = "call_line" /\ OpenQuote(o.line) # NUL
EmptyInput(o) == o.kind = "call_line" /\ RefTokens(o.line) = <<>>
UnknownCommand(o) == Handed(o).ok /\ Handed(o).name \notin DOMAIN latest
ArityMismatch(o) ==
    /\ Handed(o).ok
    /\ Handed(o).name \in DOMAIN latest
    /\ Len(Handed(o).toks) # Len(latest[Handed(o).name].Args)
ArgumentParseError(o) ==
    /\ Handed(o).ok
    /\ Handed(o).name \in DOMAIN latest
    /\ LET c == latest[Handed(o).name]
           toks == Handed(o).toks
       IN  /\ Len(toks) = Len(c.Args)
           /\ \E i \in 1..Len(toks) :
                  \/ FailsAt(c, toks, i)
                  \/ c.Args[i].kind = "integral" /\ ~WholeNumeral(c.Args[i], toks[i])
Failure(o) ==
    \/ UnterminatedQuote(o)
    \/ EmptyInput(o)
    \/ UnknownCommand(o)
    \/ ArityMismatch(o)
    \/ ArgumentParseError(o)

\* C8: a registered function without return value, called with the right
\* number of convertible tokens, is invoked exactly once and the call
\* returns a present optional holding the empty string; every failure
\* (unterminated quote, empty input, unknown command, arity mismatch,
\* argument parse error) returns an absent optional.  Stated as the claim
\* states it; the code breaks the second half on the failures C1 and C3
\* are about.
C8_VoidSuccessVersusFailure ==
    Called =>
        /\ (/\ ~Failure(op)
            /\ Handed(op).ok
            /\ latest[Handed(op).name].R.kind = "void") =>
               (ret = Some(<<>>) /\ Len(invoked) = 1)
        /\ Failure(op) => ret = nullopt

\* The half of C8 that is about success: a void function, called through
\* call(name, toks) with convertible tokens, is invoked once and the call
\* returns a present optional holding the empty string.
C8_VoidSuccessOnly ==
    (Dispatched /\ latest[Handed(op).name].R.kind = "void") =>
        LET c    == latest[Handed(op).name]
            toks == Handed(op).toks
        IN  (/\ Len(toks) = Len(c.Args)
             /\ \A i \in 1..Len(toks) : ~FailsAt(c, toks, i)) =>
                (ret = Some(<<>>) /\ Len(invoked) = 1 /\ invoked[1].fn = c.fn)

----------------------------------------------------------------------------
(* Claims about empty tokens and blank lines, checked under Spec *)

\* the line is empty or holds space characters only
Blank(line) == \A k \in 1..Len(line) : line[k] = SP

\* C11: tokenize returns no empty token, whatever the line; of a line that
\* is empty or all spaces it returns no token and the quote state NUL; and
\* call(line) of such a line returns an empty optional and invokes nothing.
C11_NoEmptyToken ==
    /\ Tokenized => \A i \in 1..Len(ret.toks) : ret.toks[i] # <<>>
    /\ (Tokenized /\ Blank(op.line)) => ret = pair(<<>>, NUL)
    /\ (Called /\ op.kind = "call_line" /\ Blank(op.line)) =>
           (ret = nullopt /\ invoked = <<>>)

\* C11 witness: the line '' followed by a space, an empty quoted span on
\* its own before a trailing space, was tokenized into no token at all.
C11_Witness ==
    /\ Tokenized
    /\ op.line = <<SQ, SQ, SP>>
    /\ ret = pair(<<>>, NUL)

----------------------------------------------------------------------------
(* Claims about registration from a running callable, under SpecReent *)

\* C12: a call is carried out by the invoker that was bound to the name
\* when the call started, also when the callable it invokes registers its
\* own or another name while it runs: the result is that callable's, reg's
\* being the text of its argument.  The registration reg makes binds f to
\* v0, leaves the other bindings alone and is what calls started afterwards
\* find in the table; a call that invokes no registering callable leaves
\* the table as it was.
C12_ReentrantRegistration ==
    [][/\ \A n \in DOMAIN latest' : table'[n] = erased_func(latest'[n])
       /\ (/\ pc = "idle"
           /\ pc' = "returned"
           /\ IsCall(op')
           /\ Handed(op').ok
           /\ Handed(op').name \in DOMAIN latest) =>
              LET c    == latest[Handed(op').name]
                  toks == Handed(op').toks
                  runs == invoked' # <<>> /\ c.fn = "reg"
              IN  /\ \E junk \in JunkBufs :
                         LET r == erased_call(erased_func(c), toks, junk)
                         IN  /\ ret' = r.ret
                             /\ invoked' = r.invoked
                             /\ nconv' = r.nconv
                  /\ runs =>
                         /\ ret' = Some(decimal(T_int, invoked'[1].args[1]))
                         /\ table' = table_assign(table, <<"f">>, erased_func(V0))
                         /\ latest'[<<"f">>] = V0
                  /\ ~runs => table' = table]_vars

\* C12 witness: f was bound to reg and called with 1; reg ran, bound f to
\* v0 in the table, and the call in flight still returned reg's result 1.
C12_Witness ==
    /\ Called
    /\ op = [kind |-> "call_name", name |-> <<"f">>, toks |-> << <<"1">> >>]
    /\ invoked = << [fn |-> "reg", args |-> << <<1, 0, 0, 0>> >>] >>
    /\ ret = Some(<<"1">>)
    /\ table[<<"f">>] = erased_func(V0)
    /\ <<"f">> \in rebound

====
